---- MODULE Spec2Model ----
(***************************************************************************)
(* Model of the Metropolis-Hastings MCMC minimiser of                      *)
(* seismic/inversion/wavefield_decomp/solvers.py                           *)
(* (optimize_minimize_mhmcmc_cluster, _propose_step, HistogramIncremental),*)
(* specification Spec; of two calls of it running as threads, SpecRuns; of *)
(* WfContinuationSuFluxComputer, SpecFlux; of the grid sweep of the        *)
(* example script, SpecSweep; and of the back-azimuth correction loop of   *)
(* analyze_station_orientations.py, SpecFold.  Each specification leaves   *)
(* the variables of the others at their idle values.                       *)
(*                                                                         *)
(* Coordinates are fixed-point integers; the parameter space has two       *)
(* dimensions (the function plots pts[:, 0] and pts[:, 1] and draws two    *)
(* subplots).  Dimensions are numbered 1..ndims here, 0..ndims-1 in the    *)
(* source.  Floating-point objective values are records that keep NaN,     *)
(* +Inf and -Inf apart from the finite values.  log_alpha and the          *)
(* logarithm of the uniform draw are held in units of 1/2.                 *)
(***************************************************************************)
EXTENDS Integers, Sequences, FiniteSets, TLC

VARIABLES
    pc,                 \* phase of the call: "uninit", "burnin", "sampling", "done"
    exc,                \* exception that ended the call, or "none"
    args,               \* arguments of the call
    main_iter,          \* maxiter - burnin (0 before it is computed)
    x, funval,          \* current chain state
    stepsize,           \* _propose_step.stepsize (function attribute)
    x_queue,            \* deque(maxlen=10000) of burn-in points
    accepted_burnin, accepted, rejected_randomly,
    minima,             \* SortedList(key=rec[1]) of (x, funval)
    hist,               \* HistogramIncremental.hist
    it,                 \* steps done in the running loop
    x_new, funval_new, log_alpha, logu,   \* locals of the last step
    retries,            \* draws rejected by the last call of _propose_step
    live,               \* local objects that exist
    result,             \* value returned by the call
    nevals,             \* number of evaluations of objective (history)
    sampLog,            \* points accepted by the sampling loop (history)
    runs,               \* two calls of the minimiser running as threads
    flux,               \* a WfContinuationSuFluxComputer and its callers
    sweep,              \* the parallel grid sweep of the example script
    fold,               \* the back-azimuth residual being folded
    station,            \* the per-station loop of the orientation analysis
    modes,              \* one call of _mode_matrices
    proposal            \* one call of _propose_step

vars == <<pc, exc, args, main_iter, x, funval, stepsize, x_queue,
          accepted_burnin, accepted, rejected_randomly, minima, hist, it,
          x_new, funval_new, log_alpha, logu, retries, live, result, nevals,
          sampLog, runs, flux, sweep, fold, station, modes,
          proposal>>

\* state of the other programs of the repository, idle while the single
\* call of the minimiser runs
others == <<runs, flux, sweep, fold, station, modes, proposal>>
Idle == <<>>

------------------------------------------------------------------------------
\* Bounds of the model
MaxIter == 5        \* largest maxiter
MaxBurnin == 1      \* largest burnin
MaxRetry == 1       \* out-of-bounds retries of _propose_step
MaxLogU == 2        \* log(rand()) is drawn from -inf and -MaxLogU..-1 (units of 1/2)

------------------------------------------------------------------------------
\* Floating-point values

Fin(n) == [k |-> "fin", v |-> n]
NaN == [k |-> "nan", v |-> 0]
PInf == [k |-> "inf", v |-> 1]
NInf == [k |-> "inf", v |-> -1]
NoVal == [k |-> "none", v |-> 0]

IsFinite(a) == a.k = "fin"

FNeg(a) ==
    IF a.k = "nan" THEN NaN ELSE [k |-> a.k, v |-> -a.v]

FSub(a, b) ==
    IF a.k = "nan" \/ b.k = "nan" THEN NaN
    ELSE IF a.k = "inf" /\ b.k = "inf" THEN (IF a.v = b.v THEN NaN ELSE a)
    ELSE IF a.k = "inf" THEN a
    ELSE IF b.k = "inf" THEN FNeg(b)
    ELSE Fin(a.v - b.v)

\* a * s for a finite scale s > 0
FScale(a, s) ==
    IF a.k = "fin" THEN Fin(a.v * s) ELSE a

FLt(a, b) ==
    IF a.k = "nan" \/ b.k = "nan" THEN FALSE
    ELSE IF a.k = "inf" THEN a.v = -1 /\ ~(b.k = "inf" /\ b.v = -1)
    ELSE IF b.k = "inf" THEN b.v = 1
    ELSE a.v < b.v

FEq(a, b) ==
    a.k # "nan" /\ b.k # "nan" /\ a = b

FLe(a, b) == FLt(a, b) \/ FEq(a, b)

FGt(a, b) == FLt(b, a)

------------------------------------------------------------------------------
\* Inputs

ndims == 2
Dims == 1..ndims

TheLb == <<0, 0>>
TheUb == <<100, 100>>

Abs(n) == IF n < 0 THEN -n ELSE n

Bowl(p) == Fin((Abs(p[1] - 50) + Abs(p[2] - 50)) \div 30)

Degen(p) ==
    IF p[2] >= 65 THEN NaN
    ELSE IF p[2] <= 35 THEN NInf
    ELSE IF p[1] <= 20 THEN PInf
    ELSE Bowl(p)

Objectives == {"bowl", "degen"}

objective(name, p) ==
    IF name = "bowl" THEN Bowl(p) ELSE Degen(p)

None == <<>>

\* x0 as supplied by the caller: absent, a corner of the upper bound, outside
SuppliedX0 == {None, <<100, 50>>, <<50, 115>>}

\* np.random.uniform(bounds.lb, bounds.ub)
UniformX0 == {<<20, 50>>}

Args ==
    [objective : Objectives, lb : {TheLb}, ub : {TheUb}, x0 : SuppliedX0,
     T : {1, 2}, N : {1}, burnin : 0..MaxBurnin, maxiter : 1..MaxIter]

------------------------------------------------------------------------------
\* HistogramIncremental

nbins == 50

\* np.linspace(bounds.lb, bounds.ub, nbins + 1).T : edge k (1..nbins+1) of dimension i
Linspace(lb, ub) ==
    [i \in Dims |-> [k \in 1..(nbins + 1) |-> lb[i] + ((k - 1) * (ub[i] - lb[i])) \div nbins]]

HistogramIncremental(lb, ub) ==
    [bins |-> Linspace(lb, ub),
     hist |-> [i \in Dims |-> [b \in 0..(nbins - 1) |-> 0]]]

\* np.digitize(v, edges) for increasing edges: the number of edges <= v
Digitize(v, edges) ==
    Cardinality({k \in 1..Len(edges) : edges[k] <= v})

\* numpy index into an axis of length nbins: negative indices wrap,
\* anything outside -nbins..nbins-1 raises IndexError
IndexOk(j) == j >= -nbins /\ j <= nbins - 1
WrapIndex(j) == IF j < 0 THEN j + nbins ELSE j

\* HistogramIncremental.__iadd__: the loop over dimensions stops at the first
\* dimension whose index is out of range; earlier dimensions stay incremented
HistIAdd(h, p) ==
    LET idx(i) == Digitize(p[i], h.bins[i])
        bad == {i \in Dims : ~IndexOk(idx(i) - 1)}
        first == IF bad = {} THEN ndims + 1
                 ELSE CHOOSE i \in bad : \A j \in bad : i <= j
    IN [ok |-> bad = {},
        h |-> [h EXCEPT !.hist =
                 [i \in Dims |->
                    IF i < first
                    THEN [h.hist[i] EXCEPT ![WrapIndex(idx(i) - 1)] = @ + 1]
                    ELSE h.hist[i]]]]

------------------------------------------------------------------------------
\* _propose_step

\* np.random.randint(0, ndims)
DimDraws == Dims

\* np.random.randn(), in whole step sizes
Zs == {-1, 1}

\* variant: the proposal is tested against the lower bound only
StepInBounds_LowerOnly(v, lo, hi) == v >= lo

\* the test of line 61
StepInBounds(v, lo, hi) == v >= lo /\ v <= hi

\* variant: result is the array x itself, not a copy
CopyAndSet_NoCopy(p, dim, v) ==
    [x |-> [p EXCEPT ![dim] = v], result |-> [p EXCEPT ![dim] = v]]

\* lines 65-66: result = x.copy(); result[dim] = x_new.  x is the argument
\* array after the two statements.
CopyAndSet(p, dim, v) == [x |-> p, result |-> [p EXCEPT ![dim] = v]]

\* The values the loop of lines 58-64 can produce from point p after k
\* rejected draws: every draw either passes the test and ends the loop, or
\* fails it and the loop draws again.  ss is the value of
\* _propose_step.stepsize when the function runs.  Each value holds the
\* array returned (result) and the argument array after the call (x).
RECURSIVE ProposeLoop(_, _, _, _, _)
ProposeLoop(p, lb, ub, ss, k) ==
    UNION {
        LET v == p[dim] + ss[dim] * z
        IN IF StepInBounds(v, lb[dim], ub[dim])
           THEN {[dim |-> dim, retries |-> k,
                  x |-> CopyAndSet(p, dim, v).x,
                  result |-> CopyAndSet(p, dim, v).result]}
           ELSE IF k < MaxRetry
                THEN ProposeLoop(p, lb, ub, ss, k + 1)
                ELSE {}
        : dim \in DimDraws, z \in Zs}

ProposeStep(p, lb, ub, ss) == ProposeLoop(p, lb, ub, ss, 0)

------------------------------------------------------------------------------
\* optimize_minimize_mhmcmc_cluster

\* variant: maxiter equal to burnin passes the assertion
AssertMaxiter_NotLess(maxiter, burnin) == maxiter >= burnin

\* the assertion of line 88
AssertMaxiter(maxiter, burnin) == maxiter > burnin

\* variant: x0 is tested against the lower bound only
X0InBounds_LowerOnly(p, lb, ub) == \A i \in Dims : p[i] >= lb[i]

\* the assertion of line 99
X0InBounds(p, lb, ub) == \A i \in Dims : p[i] >= lb[i] /\ p[i] <= ub[i]

Sigma0(lb, ub) == [i \in Dims |-> (15 * (ub[i] - lb[i])) \div 100]

\* -(funval_new - funval)*beta with beta = 1.0/T, in units of 1/2
LogAlpha(fnew, f, T) == FScale(FNeg(FSub(fnew, f)), 2 \div T)

\* log(rand()) for rand() in [0, 1), in units of 1/2
LogUs == {NInf} \cup {Fin(-n) : n \in 1..MaxLogU}

\* variant: only strictly downhill proposals are accepted
Accept_DownhillOnly(la, lu) == FGt(la, Fin(0))

\* variant: a draw equal to the acceptance ratio is rejected
Accept_Strict(la, lu) == FGt(la, Fin(0)) \/ FLt(lu, la)

\* log_alpha > 0 or np.log(np.random.rand()) <= log_alpha
Accept(la, lu) == FGt(la, Fin(0)) \/ FLe(lu, la)

\* variant: the draw is made at every step
DrawnLogU_Always(la, lu) == lu

\* the draw is made only when log_alpha > 0 is false
DrawnLogU(la, lu) == IF FGt(la, Fin(0)) THEN NoVal ELSE lu

\* elif log_alpha <= 0
CountsRejected(la) == FLe(la, Fin(0))

QueueMaxLen == 10000

DequeAppend(q, p) ==
    LET q1 == Append(q, p)
    IN IF Len(q1) > QueueMaxLen THEN Tail(q1) ELSE q1

\* SortedList.add with key rec[1]: insertion after the entries whose key is
\* not greater (bisect_right)
SortedAdd(s, rec) ==
    LET pos == Cardinality({j \in 1..Len(s) : ~FLt(rec[2], s[j][2])})
    IN [j \in 1..(Len(s) + 1) |->
          IF j <= pos THEN s[j] ELSE IF j = pos + 1 THEN rec ELSE s[j - 1]]

\* variant: the first (best) entry is removed
SortedPop_First(s) == Tail(s)

\* SortedList.pop(): removes the last entry
SortedPop(s) == SubSeq(s, 1, Len(s) - 1)

N_cached(N) == 3 * N

MinimaAdd(s, rec, N) ==
    LET s1 == SortedAdd(s, rec)
    IN IF Len(s1) > N_cached(N) THEN SortedPop(s1) ELSE s1

\* variant: the candidate set starts with the final state of burn-in
NewSortedList_Seeded == <<<<x, funval>>>>

\* SortedList(key=lambda rec: rec[1])
NewSortedList == <<>>

\* The function body ends without a return statement: the call returns None
NotReturned == [returned |-> FALSE, none |-> FALSE, solutions |-> <<>>, hist |-> None]
ReturnedNone == [returned |-> TRUE, none |-> TRUE, solutions |-> <<>>, hist |-> None]

Init ==
    /\ args \in Args
    /\ pc = "uninit"
    /\ exc = "none"
    /\ main_iter = 0
    /\ x = None
    /\ funval = NoVal
    /\ stepsize = None
    /\ x_queue = <<>>
    /\ accepted_burnin = 0
    /\ accepted = 0
    /\ rejected_randomly = 0
    /\ minima = <<>>
    /\ hist = None
    /\ it = 0
    /\ x_new = None
    /\ funval_new = NoVal
    /\ log_alpha = NoVal
    /\ logu = NoVal
    /\ retries = 0
    /\ live = {}
    /\ result = NotReturned
    /\ nevals = 0
    /\ sampLog = <<>>
    /\ runs = Idle /\ flux = Idle /\ sweep = Idle /\ fold = Idle
    /\ station = Idle /\ modes = Idle /\ proposal = Idle

\* lines 88-109
Call ==
    /\ UNCHANGED others
    /\ pc = "uninit" /\ exc = "none"
    /\ IF ~AssertMaxiter(args.maxiter, args.burnin)
       THEN /\ exc' = "AssertionError"
            /\ UNCHANGED <<pc, main_iter, x, funval, stepsize, x_queue,
                           accepted_burnin, rejected_randomly, live, nevals>>
       ELSE \E u \in UniformX0 :
              LET x0 == IF args.x0 = None THEN u ELSE args.x0
              IN /\ main_iter' = args.maxiter - args.burnin
                 /\ IF ~X0InBounds(x0, args.lb, args.ub)
                    THEN /\ exc' = "AssertionError"
                         /\ UNCHANGED <<pc, x, funval, stepsize, x_queue,
                                        accepted_burnin, rejected_randomly,
                                        live, nevals>>
                    ELSE /\ x' = x0
                         /\ funval' = objective(args.objective, x0)
                         /\ nevals' = nevals + 1
                         /\ stepsize' = Sigma0(args.lb, args.ub)
                         /\ x_queue' = DequeAppend(<<>>, x0)
                         /\ rejected_randomly' = 0
                         /\ accepted_burnin' = 0
                         /\ live' = {"x", "x_queue"}
                         /\ pc' = "burnin"
                         /\ exc' = "none"
    /\ UNCHANGED <<args, accepted, minima, hist, it, x_new, funval_new,
                   log_alpha, logu, retries, result, sampLog>>

\* lines 110-122, one iteration
BurninStep ==
    /\ UNCHANGED others
    /\ pc = "burnin" /\ exc = "none" /\ it < args.burnin
    /\ \E p \in ProposeStep(x, args.lb, args.ub, stepsize), lu \in LogUs :
         LET fn == objective(args.objective, p.result)
             la == LogAlpha(fn, funval, args.T)
         IN /\ x_new' = p.result
            /\ retries' = p.retries
            /\ funval_new' = fn
            /\ nevals' = nevals + 1
            /\ log_alpha' = la
            /\ logu' = DrawnLogU(la, lu)
            /\ IF Accept(la, lu)
               THEN /\ x' = p.result
                    /\ funval' = fn
                    /\ x_queue' = DequeAppend(x_queue, p.result)
                    /\ accepted_burnin' = accepted_burnin + 1
                    /\ UNCHANGED rejected_randomly
               ELSE /\ rejected_randomly' =
                          IF CountsRejected(la) THEN rejected_randomly + 1
                          ELSE rejected_randomly
                    /\ x' = p.x
                    /\ UNCHANGED <<funval, x_queue, accepted_burnin>>
    /\ it' = it + 1
    /\ UNCHANGED <<pc, exc, args, main_iter, stepsize, accepted, minima, hist,
                   live, result, sampLog>>

\* lines 123-144: float(accepted_burnin)/burnin, the scatter plot,
\* del x_queue, and the objects of the sampling loop
EndBurnin ==
    /\ UNCHANGED others
    /\ pc = "burnin" /\ exc = "none" /\ it = args.burnin
    /\ IF args.burnin = 0
       THEN /\ exc' = "ZeroDivisionError"
            /\ UNCHANGED <<pc, x_queue, accepted, rejected_randomly, minima,
                           hist, it, live>>
       ELSE /\ x_queue' = <<>>
            /\ live' = (live \ {"x_queue"}) \cup {"minima", "hist"}
            /\ accepted' = 0
            /\ rejected_randomly' = 0
            /\ minima' = NewSortedList
            /\ hist' = HistogramIncremental(args.lb, args.ub)
            /\ it' = 0
            /\ pc' = "sampling"
            /\ exc' = "none"
    /\ UNCHANGED <<args, main_iter, x, funval, stepsize, accepted_burnin,
                   x_new, funval_new, log_alpha, logu, retries, result, nevals,
                   sampLog>>

\* lines 145-161, one iteration
SamplingStep ==
    /\ UNCHANGED others
    /\ pc = "sampling" /\ exc = "none" /\ it < main_iter
    /\ \E p \in ProposeStep(x, args.lb, args.ub, stepsize), lu \in LogUs :
         LET fn == objective(args.objective, p.result)
             la == LogAlpha(fn, funval, args.T)
             ha == HistIAdd(hist, p.result)
         IN /\ x_new' = p.result
            /\ retries' = p.retries
            /\ funval_new' = fn
            /\ nevals' = nevals + 1
            /\ log_alpha' = la
            /\ logu' = DrawnLogU(la, lu)
            /\ IF Accept(la, lu)
               THEN /\ x' = p.result
                    /\ funval' = fn
                    /\ minima' = MinimaAdd(minima, <<p.result, fn>>, args.N)
                    /\ sampLog' = Append(sampLog, <<p.result, fn>>)
                    /\ hist' = ha.h
                    /\ IF ha.ok
                       THEN /\ accepted' = accepted + 1
                            /\ it' = it + 1
                            /\ exc' = "none"
                       ELSE /\ exc' = "IndexError"
                            /\ UNCHANGED <<accepted, it>>
                    /\ UNCHANGED rejected_randomly
               ELSE /\ rejected_randomly' =
                          IF CountsRejected(la) THEN rejected_randomly + 1
                          ELSE rejected_randomly
                    /\ it' = it + 1
                    /\ x' = p.x
                    /\ UNCHANGED <<funval, minima, sampLog, hist, accepted,
                                   exc>>
    /\ UNCHANGED <<pc, args, main_iter, stepsize, x_queue, accepted_burnin,
                   live, result>>

\* lines 162-176: the acceptance rate, the histogram plots and the implicit
\* return at the end of the function body
Finish ==
    /\ UNCHANGED others
    /\ pc = "sampling" /\ exc = "none" /\ it = main_iter
    /\ pc' = "done"
    /\ result' = ReturnedNone
    /\ UNCHANGED <<exc, args, main_iter, x, funval, stepsize, x_queue,
                   accepted_burnin, accepted, rejected_randomly, minima, hist,
                   it, x_new, funval_new, log_alpha, logu, retries, live, nevals,
                   sampLog>>

Next ==
    \/ Call
    \/ BurninStep
    \/ EndBurnin
    \/ SamplingStep
    \/ Finish

Spec == Init /\ [][Next]_vars

------------------------------------------------------------------------------
\* Properties

InBox(p) == \A i \in Dims : args.lb[i] <= p[i] /\ p[i] <= args.ub[i]

\* a transition that proposes and evaluates a point (one loop iteration)
StepTaken == pc \in {"burnin", "sampling"} /\ nevals' = nevals + 1

StepAccepted == x' = x_new' /\ funval' = funval_new'

Count(s, r) == Cardinality({j \in 1..Len(s) : s[j] = r})

\* C1: the initial point, every point returned by _propose_step and every
\* chain state lie within the bounds in every dimension, in burn-in and in
\* sampling.
C1_WithinBounds ==
    /\ x # None => InBox(x)
    /\ x_new # None => InBox(x_new)
    /\ \A j \in 1..Len(x_queue) : InBox(x_queue[j])

\* a proposal produced after an out-of-bounds retry became the chain state
C1_Witness ==
    pc = "sampling" /\ retries > 0 /\ x = x_new /\ accepted > 0

\* C2 as stated: a proposal whose value is lower than or equal to the current
\* value is accepted whatever the uniform draw.
C2_Original ==
    [][(StepTaken /\ FLe(funval_new', funval)) => StepAccepted]_vars

\* C2 amended: a proposal whose value is finite and lower than or equal to the
\* current value is accepted whatever the uniform draw.
C2_FiniteDownhillAccepted ==
    [][(StepTaken /\ IsFinite(funval_new') /\ FLe(funval_new', funval))
          => StepAccepted]_vars

\* an equal move was accepted with the largest value of log(rand())
C2_Witness ==
    /\ pc = "sampling" /\ x = x_new /\ IsFinite(funval_new)
    /\ log_alpha = Fin(0) /\ logu = Fin(-1)

\* C3: a proposal whose value is NaN, +Inf or -Inf is rejected, leaving x,
\* funval, the candidate set and the histogram unchanged, and raises nothing.
C3_DegenerateRejected ==
    [][(StepTaken /\ ~IsFinite(funval_new'))
          => (x' = x /\ funval' = funval /\ minima' = minima /\ hist' = hist
              /\ exc' = "none")]_vars

\* C4: a call with maxiter <= burnin fails before the run starts: no
\* evaluation of the objective, no proposal, no chain, candidate or histogram
\* state.
C4_MaxiterRejected ==
    args.maxiter <= args.burnin =>
        /\ pc = "uninit"
        /\ nevals = 0
        /\ x = None /\ funval = NoVal /\ x_new = None
        /\ minima = <<>> /\ hist = None /\ x_queue = <<>> /\ live = {}
        /\ it = 0

C4_Witness ==
    args.maxiter <= args.burnin /\ exc = "AssertionError"

\* C5: a supplied x0 outside the bounds fails the call before the objective
\* is evaluated and before any step; an absent x0 is drawn within the bounds
\* and passes the check.
C5_X0Validated ==
    /\ (args.x0 # None /\ ~InBox(args.x0)) =>
          (pc = "uninit" /\ nevals = 0 /\ x = None /\ x_new = None /\ it = 0)
    /\ (args.x0 = None /\ args.maxiter > args.burnin) => exc # "AssertionError"
    /\ (args.x0 = None /\ pc = "burnin" /\ it = 0) => (x # None /\ InBox(x))

C5_Witness ==
    /\ args.x0 # None /\ ~InBox(args.x0) /\ args.maxiter > args.burnin
    /\ exc = "AssertionError"

\* C6: after every sampling step the candidate set holds at most 3N entries,
\* is ordered by value ascending and holds the min(3N, k) lowest-valued of the
\* k points accepted so far in sampling.
C6_BestCandidates ==
    pc \in {"sampling", "done"} =>
        /\ Len(minima) <= 3 * args.N
        /\ Len(minima) = (IF Len(sampLog) < 3 * args.N THEN Len(sampLog) ELSE 3 * args.N)
        /\ \A j \in 1..Len(minima) : \A k \in j..Len(minima) :
               FLe(minima[j][2], minima[k][2])
        /\ \A j \in 1..Len(minima) : Count(minima, minima[j]) <= Count(sampLog, minima[j])
        /\ \A j \in 1..Len(sampLog) :
               Count(minima, sampLog[j]) < Count(sampLog, sampLog[j]) =>
                   \A k \in 1..Len(minima) : FLe(minima[k][2], sampLog[j][2])

\* the newest accepted point is retained and an older, worse one was evicted
C6_Witness ==
    /\ pc = "sampling" /\ Len(sampLog) > 3 * args.N
    /\ Count(minima, sampLog[Len(sampLog)]) > 0
    /\ FLt(sampLog[Len(sampLog)][2], minima[Len(minima)][2])
    /\ \E j \in 1..Len(sampLog) : Count(minima, sampLog[j]) = 0

\* bin of the edge grid of args that holds coordinate v of dimension i
BinOf(v, i) ==
    IF v = args.ub[i] THEN nbins - 1
    ELSE ((v - args.lb[i]) * nbins) \div (args.ub[i] - args.lb[i])

\* C7: nothing of burn-in but the chain state reaches sampling: candidates
\* and histogram counts come from points accepted in sampling, and the buffer
\* of burn-in points no longer exists when sampling runs.
C7_NothingFromBurnin ==
    /\ pc \in {"uninit", "burnin"} => (minima = <<>> /\ hist = None /\ sampLog = <<>>)
    /\ pc \in {"sampling", "done"} =>
          /\ "x_queue" \notin live /\ x_queue = <<>>
          /\ \A j \in 1..Len(minima) : Count(sampLog, minima[j]) > 0
          /\ \A i \in Dims : \A b \in 0..(nbins - 1) :
                \/ hist.hist[i][b] = 0
                \/ hist.hist[i][b] <=
                      Cardinality({j \in 1..Len(sampLog) : BinOf(sampLog[j][1][i], i) = b})

C7_Witness ==
    /\ pc = "sampling" /\ accepted_burnin > 0 /\ accepted > 0
    /\ Len(minima) > 0

\* C8: every point accepted in sampling adds one count in each dimension to
\* the bin that holds its coordinate, also at lb[i] and ub[i]; the edges never
\* change.
C8_OneCountPerDimension ==
    [][(pc = "sampling" /\ sampLog' # sampLog) =>
          /\ exc' = "none"
          /\ hist'.bins = hist.bins
          /\ \A i \in Dims :
                hist'.hist[i] = [hist.hist[i] EXCEPT ![BinOf(x'[i], i)] = @ + 1]]_vars

\* C9: at DONE the call returns at most N (point, value) pairs taken from the
\* retained candidates, ascending by value, at least one when candidates
\* exist, with the histograms.
C9_ReturnsSolutions ==
    pc = "done" =>
        /\ result.returned /\ ~result.none
        /\ Len(result.solutions) <= args.N
        /\ \A j \in 1..Len(result.solutions) : Count(minima, result.solutions[j]) > 0
        /\ \A j \in 1..Len(result.solutions) : \A k \in j..Len(result.solutions) :
               FLe(result.solutions[j][2], result.solutions[k][2])
        /\ (Len(minima) > 0 => Len(result.solutions) > 0)
        /\ result.hist = hist

\* C10: a started run goes through burn-in and sampling to DONE without an
\* early exit, doing burnin burn-in steps and maxiter - burnin sampling steps.
C10_RunsToDone ==
    /\ pc # "uninit" => exc = "none"
    /\ pc = "sampling" => nevals = 1 + args.burnin + it
    /\ pc = "done" => (it = args.maxiter - args.burnin /\ nevals = 1 + args.maxiter)

\* a step whose proposal is uphill: its value and the current value are
\* finite and the proposal's value is the higher
UphillStep ==
    /\ StepTaken
    /\ IsFinite(funval) /\ IsFinite(funval_new') /\ FGt(funval_new', funval)

\* C25: in burn-in and in sampling an uphill proposal is accepted exactly
\* when the draw u of the step satisfies u <= exp(-(f_new - f_current)/T),
\* that is log(u) <= log_alpha, and is otherwise rejected, leaving x and f
\* unchanged.
C25_UphillRule ==
    [][UphillStep =>
         /\ logu' # NoVal
         /\ StepAccepted <=> FLe(logu', log_alpha')
         /\ ~StepAccepted => (x' = x /\ funval' = funval)]_vars

\* an uphill proposal accepted on its draw, in sampling after one accepted in
\* burn-in
C25_Witness ==
    /\ pc = "sampling" /\ it > 0 /\ accepted_burnin > 0
    /\ FLt(log_alpha, Fin(0)) /\ logu # NoVal /\ FLe(logu, log_alpha)
    /\ x = x_new /\ funval = funval_new

\* C26 as stated: every burn-in and sampling step consumes one uniform draw.
C26_Original == [][StepTaken => logu' # NoVal]_vars

\* C26: a burn-in or sampling step consumes one uniform draw unless its
\* proposal is strictly downhill (log_alpha > 0), and then none.
C26_DrawUnlessDownhill ==
    [][StepTaken => (logu' = NoVal <=> FGt(log_alpha', Fin(0)))]_vars

\* a downhill step made no draw, an earlier step of the call having made one
C26_Witness ==
    /\ pc = "sampling" /\ it > 0
    /\ FGt(log_alpha, Fin(0)) /\ logu = NoVal
    /\ x = x_new
    /\ rejected_randomly > 0

\* C27: after the initialisation and after every burn-in or sampling step,
\* the stored value is the objective at the stored point, and a step
\* replaces both (by the proposal and its value) or neither.
C27_ChainStateConsistent ==
    [][/\ pc' \in {"burnin", "sampling", "done"} =>
             funval' = objective(args'.objective, x')
       /\ StepTaken =>
             \/ x' = x /\ funval' = funval
             \/ x' = x_new' /\ funval' = funval_new']_vars

\* the chain state was replaced in burn-in and a later proposal rejected
C27_Witness ==
    /\ pc = "sampling" /\ it > 0 /\ accepted_burnin > 0
    /\ x # x_new /\ rejected_randomly > 0
    /\ funval = objective(args.objective, x)

------------------------------------------------------------------------------
(***************************************************************************)
(* Two calls of optimize_minimize_mhmcmc_cluster running as threads of one *)
(* process.  Every local of a call is a field of its record in runs; the   *)
(* step size is the function attribute _propose_step.stepsize, one object  *)
(* for the whole process (variable stepsize).  One action is one statement *)
(* block of the call: the prologue, one loop iteration, the code between   *)
(* the loops, the epilogue.                                                *)
(***************************************************************************)
RunIds == {1, 2}
WideUb == <<200, 200>>

\* arguments of the two calls: the same objective over boxes of different
\* width, so that 0.15*(ub - lb) differs between the calls
RunArgs == <<[objective |-> "bowl", lb |-> TheLb, ub |-> TheUb, x0 |-> <<50, 50>>,
              T |-> 1, N |-> 1, burnin |-> 1, maxiter |-> 2],
             [objective |-> "bowl", lb |-> TheLb, ub |-> WideUb, x0 |-> <<100, 100>>,
              T |-> 1, N |-> 1, burnin |-> 1, maxiter |-> 2]>>

\* the locals of the single call, not used while the two threads run
MinimiserIdle ==
    /\ pc = "idle" /\ exc = "none" /\ args = Idle /\ main_iter = 0
    /\ x = None /\ funval = NoVal /\ x_queue = <<>>
    /\ accepted_burnin = 0 /\ accepted = 0 /\ rejected_randomly = 0
    /\ minima = <<>> /\ hist = None /\ it = 0
    /\ x_new = None /\ funval_new = NoVal /\ log_alpha = NoVal /\ logu = NoVal
    /\ retries = 0 /\ live = {} /\ result = NotReturned /\ nevals = 0
    /\ sampLog = <<>>

locals == <<pc, exc, args, main_iter, x, funval, x_queue, accepted_burnin,
            accepted, rejected_randomly, minima, hist, it, x_new, funval_new,
            log_alpha, logu, retries, live, result, nevals, sampLog>>

RunUninit(r) ==
    [pc |-> "uninit", exc |-> "none", args |-> RunArgs[r], x |-> None,
     funval |-> NoVal, it |-> 0, minima |-> <<>>, hist |-> None,
     used |-> None, nsteps |-> 0]

InitRuns ==
    /\ MinimiserIdle
    /\ stepsize = None
    /\ runs = [r \in RunIds |-> RunUninit(r)]
    /\ flux = Idle /\ sweep = Idle /\ fold = Idle /\ station = Idle /\ modes = Idle /\ proposal = Idle

\* lines 88-109 of one call
RunCall(r) ==
    LET me == runs[r] a == me.args IN
    /\ me.pc = "uninit"
    /\ AssertMaxiter(a.maxiter, a.burnin)
    /\ X0InBounds(a.x0, a.lb, a.ub)
    /\ stepsize' = Sigma0(a.lb, a.ub)
    /\ runs' = [runs EXCEPT ![r] = [me EXCEPT !.pc = "burnin", !.x = a.x0,
                                   !.funval = objective(a.objective, a.x0)]]
    /\ UNCHANGED <<locals, station, modes, proposal, flux, sweep, fold>>

\* lines 110-122 and 145-161 of one call, one iteration of either loop; the
\* proposal reads _propose_step.stepsize as it is when the step is made
RunStep(r) ==
    LET me == runs[r] a == me.args IN
    /\ me.pc \in {"burnin", "sampling"} /\ me.exc = "none"
    /\ me.it < (IF me.pc = "burnin" THEN a.burnin ELSE a.maxiter - a.burnin)
    /\ \E p \in ProposeStep(me.x, a.lb, a.ub, stepsize), lu \in LogUs :
         LET fnew == objective(a.objective, p.result)
             la == LogAlpha(fnew, me.funval, a.T)
             acc == Accept(la, lu)
             ha == HistIAdd(me.hist, p.result)
             stepped == [me EXCEPT !.it = me.it + 1, !.used = stepsize,
                                   !.nsteps = me.nsteps + 1]
         IN runs' = [runs EXCEPT ![r] =
              IF ~acc THEN stepped
              ELSE IF me.pc = "burnin"
                   THEN [stepped EXCEPT !.x = p.result, !.funval = fnew]
              ELSE IF ~ha.ok
                   THEN [me EXCEPT !.x = p.result, !.funval = fnew,
                                   !.minima = MinimaAdd(me.minima, <<p.result, fnew>>, a.N),
                                   !.hist = ha.h,
                                   !.used = stepsize, !.nsteps = me.nsteps + 1,
                                   !.exc = "IndexError"]
              ELSE [stepped EXCEPT !.x = p.result, !.funval = fnew,
                                   !.minima = MinimaAdd(me.minima, <<p.result, fnew>>, a.N),
                                   !.hist = ha.h]]
    /\ UNCHANGED <<stepsize, locals, station, modes, proposal, flux, sweep, fold>>

\* lines 123-144 of one call
RunEndBurnin(r) ==
    LET me == runs[r] a == me.args IN
    /\ me.pc = "burnin" /\ me.exc = "none" /\ me.it = a.burnin
    /\ runs' = [runs EXCEPT ![r] =
                  IF a.burnin = 0 THEN [me EXCEPT !.exc = "ZeroDivisionError"]
                  ELSE [me EXCEPT !.pc = "sampling", !.it = 0,
                                  !.minima = NewSortedList,
                                  !.hist = HistogramIncremental(a.lb, a.ub)]]
    /\ UNCHANGED <<stepsize, locals, station, modes, proposal, flux, sweep, fold>>

\* lines 162-176 of one call
RunFinish(r) ==
    LET me == runs[r] a == me.args IN
    /\ me.pc = "sampling" /\ me.exc = "none" /\ me.it = a.maxiter - a.burnin
    /\ runs' = [runs EXCEPT ![r] = [me EXCEPT !.pc = "done"]]
    /\ UNCHANGED <<stepsize, locals, station, modes, proposal, flux, sweep, fold>>

RunCalls == \E r \in RunIds : RunCall(r)
RunSteps == \E r \in RunIds : RunStep(r)
RunEndBurnins == \E r \in RunIds : RunEndBurnin(r)
RunFinishes == \E r \in RunIds : RunFinish(r)

NextRuns ==
    \/ RunCalls
    \/ RunSteps
    \/ RunEndBurnins
    \/ RunFinishes

SpecRuns == InitRuns /\ [][NextRuns]_vars

\* C11: when two runs are interleaved in one process, every proposal of a
\* run is made with that run's own step size, 0.15 * (ub - lb) of its own
\* bounds, whatever the other run has done in between.
C11_OwnStepSize ==
    \A r \in RunIds :
        runs[r].nsteps > 0 =>
            runs[r].used = Sigma0(runs[r].args.lb, runs[r].args.ub)

------------------------------------------------------------------------------
(***************************************************************************)
(* WfContinuationSuFluxComputer of wavefield_continuation_tao.py.          *)
(*                                                                         *)
(* Samples are fixed-point integers in units of 1/2 (SampleNaN stands for  *)
(* a sample that is NaN or infinite).  A ray parameter p is pn / PDen.     *)
(*  Vertical slownesses are exact for the values used           *)
(* (PDen^2 - pn^2 * Vs^2 is a perfect square or negative).  The phase      *)
(* factors exp(i*H*Q*w) of the layers are transcendental: the sequence of  *)
(* matrix operators an evaluation applies is kept symbolically in ops, and *)
(* the energies are computed with unit phase factors, which is exact for   *)
(* an empty layer stack.  rfft followed by irfft is the identity on the    *)
(* samples.  numpy is of the generation that has np.complex (line 165); it *)
(* builds an array of dtype object from ragged nested lists.               *)
(***************************************************************************)
PDen == 20
NPts == 8
f_s == 1
TimeWindow == <<-20, 50>>
CutWindow == <<-5, 30>>
FluxWindows == {<<-10, 20>>, <<-20, 0>>}

Max(S) == CHOOSE m \in S : \A n \in S : n <= m
RECURSIVE Sum(_)
Sum(q) == IF q = <<>> THEN 0 ELSE Head(q) + Sum(Tail(q))

\* events of a station: the R and Z traces and their sampling rate
EvA == [R |-> <<0, 1, 1, 2, -1, 1, 0, 0>>, Z |-> <<1, 0, -2, 1, 2, -1, 0, 1>>, rate |-> f_s]
EvB == [R |-> <<0, 0, 2, -1, 1, 0, 1, 0>>, Z |-> <<0, 1, 1, -1, 0, 1, -1, 0>>, rate |-> f_s]
EvDead == [R |-> <<0, 1, -1, 1, 2, 0, 1, 0>>, Z |-> <<0, 0, 0, 0, 0, 0, 0, 0>>, rate |-> f_s]
EvShort == [R |-> <<0, 1, 1, 2, -1, 1>>, Z |-> <<1, 0, -2, 1, 2, -1>>, rate |-> f_s]
EvFast == [R |-> <<0, 0, 0, 1, 2, 1, -1, 0, 1, 1, 0, 0, 1, 0, 0, 0>>,
           Z |-> <<0, 1, 1, 0, 1, 1, -1, 0, 0, 1, 1, 0, -1, 0, 0, 1>>,
           rate |-> 2 * f_s]
StreamDicts == {<<EvA, EvFast>>, <<EvA, EvShort>>, <<EvB, EvDead>>}

\* lines 39-45: a trace that is not at f_s is interpolated onto the sample
\* times of f_s (the low-pass filter is not evaluated)
Resample(tr, rate) ==
    IF rate = f_s THEN tr
    ELSE [k \in 1..((Len(tr) * f_s) \div rate) |-> tr[(k - 1) * (rate \div f_s) + 1]]

\* lines 49-52: a trace that ends before the window ends stays short
Trim(tr) == SubSeq(tr, 1, IF Len(tr) < NPts THEN Len(tr) ELSE NPts)

\* np.linspace(*time_window, npts)[k - 1]
Times(k, npts) ==
    TimeWindow[1] + ((k - 1) * (TimeWindow[2] - TimeWindow[1])) \div (npts - 1)

\* lines 55-66: the samples of the cut window, resampled onto the times of
\* the whole trace (detrend and taper are not evaluated)
CutResample(tr) ==
    [k \in 1..Len(tr) |->
        IF Times(k, NPts) >= CutWindow[1] /\ Times(k, NPts) <= CutWindow[2]
        THEN tr[k] ELSE 0]

Negated(tr) == [k \in 1..Len(tr) |-> -tr[k]]

\* the traces of the caller after lines 39-66 (replaced in place)
Processed(data) ==
    [e \in 1..Len(data) |->
        [R |-> CutResample(Trim(Resample(data[e].R, data[e].rate))),
         Z |-> CutResample(Trim(Resample(data[e].Z, data[e].rate))),
         rate |-> f_s]]

\* lines 77-78
StreamdictToArray(data) ==
    [e \in 1..Len(data) |-> <<Processed(data)[e].R, Negated(Processed(data)[e].Z)>>]

\* v0.shape: nested lists of unequal lengths give an array of lists
Ragged(a) == \E e, f \in 1..Len(a), c, d \in 1..2 : Len(a[e][c]) # Len(a[f][d])
Shape(a) == IF Ragged(a) THEN <<Len(a), 2>> ELSE <<Len(a), 2, Len(a[1][1])>>

\* variant: the division is made in place (v0 /= max_vz)
NormalizeStep_InPlace(v0, normalized) == [arg |-> normalized, v0 |-> normalized]

\* lines 98-107: the name v0 is bound to new arrays, the argument is kept
NormalizeStep(v0, normalized) == [arg |-> v0, v0 |-> normalized]

SampleNaN == -1000
HasNaN(ev) == \E c \in 1..2 : \E k \in 1..Len(ev[c]) : ev[c][k] = SampleNaN

\* lines 103-104, one event: every sample divided by the peak of |Z|; a
\* zero peak gives 0/0 and x/0
NormalizedEvent(ev) ==
    LET max_vz == Max({Abs(ev[2][k]) : k \in 1..Len(ev[2])})
    IN IF max_vz = 0 \/ HasNaN(ev)
       THEN <<[k \in 1..Len(ev[1]) |-> SampleNaN], [k \in 1..Len(ev[2]) |-> SampleNaN]>>
       ELSE <<[k \in 1..Len(ev[1]) |-> (2 * ev[1][k]) \div max_vz],
              [k \in 1..Len(ev[2]) |-> (2 * ev[2][k]) \div max_vz]>>

Normalized(v0) == [e \in 1..Len(v0) |-> NormalizedEvent(v0[e])]

\* LayerProps: Vp, Vs, rho and, for a layer, the thickness H
mantle_props == [Vp |-> 5, Vs |-> 4, rho |-> 3]
crust_props == [Vp |-> 4, Vs |-> 2, rho |-> 2, H |-> 35]
sediment_props == [Vp |-> 2, Vs |-> 1, rho |-> 1, H |-> 2]
LayerStacks == {<<>>, <<sediment_props, crust_props>>,
                <<crust_props, sediment_props>>}

\* ray parameters of the events: 0 and 3/20 are below 1/Vp of the mantle,
\* 6/20 is above 1/Vs of the mantle
PArrays == {<<Fin(3), Fin(0)>>, <<Fin(3), Fin(6)>>, <<NaN, Fin(3)>>}

\* sign of 1/V^2 - p*p, times (V*PDen)^2
Slowness2(V, pn) == PDen * PDen - pn * pn * V * V

\* floor of the square root of n, for 0 <= n <= PDen^2
Sqrt(n) == CHOOSE r \in 0..PDen : r * r <= n /\ (r + 1) * (r + 1) > n

\* lines 165-168: the square root is complex, so qa and qb are NaN only
\* for a NaN argument; "real", "zero" or "imag" otherwise
ComplexSqrtKind(V, pi) ==
    IF ~IsFinite(pi) THEN "nan"
    ELSE IF Slowness2(V, pi.v) > 0 THEN "real"
    ELSE IF Slowness2(V, pi.v) = 0 THEN "zero" ELSE "imag"

\* lines 165-168: assert not np.any(np.isnan(qa)), ... (qb)
ModeMatricesOk(layer, p_arr) ==
    \A i \in 1..Len(p_arr) : /\ ComplexSqrtKind(layer.Vp, p_arr[i]) # "nan"
                             /\ ComplexSqrtKind(layer.Vs, p_arr[i]) # "nan"

Op(name, layer) == [op |-> name, of |-> layer]

\* variant: the layer is recomposed before the phase factor is applied
LayerOps_PhaseLast(layer) == <<Op("Minv", layer), Op("M", layer), Op("phase", layer)>>

\* lines 217-224, one iteration: fz = Minv fz; fz = phase_factors*fz; fz = M fz
LayerOps(layer) == <<Op("Minv", layer), Op("phase", layer), Op("M", layer)>>

\* lines 210-228: ok is FALSE when an assertion of _mode_matrices fails
RECURSIVE PropagateLayers(_, _, _)
PropagateLayers(ops, layer_props, p_arr) ==
    IF layer_props = <<>> THEN [ok |-> TRUE, ops |-> ops]
    ELSE IF ~ModeMatricesOk(Head(layer_props), p_arr) THEN [ok |-> FALSE, ops |-> ops]
    ELSE PropagateLayers(ops \o LayerOps(Head(layer_props)), Tail(layer_props), p_arr)

\* line 133: qb_m = np.sqrt(1 / Vs**2 - p*p), a real square root, in units
\* of 1/(Vs*PDen); NaN for a negative argument
RealSqrt(V, pi) ==
    IF ~IsFinite(pi) THEN NaN
    ELSE IF Slowness2(V, pi.v) < 0 THEN NaN
    ELSE Fin(Sqrt(Slowness2(V, pi.v)))

\* variant: the mask of the previous call is used again
IntegralMask_Stale(npts, flux_window) ==
    LET w == IF flux.last.made THEN flux.last.flux_window ELSE flux_window
    IN {k \in 1..npts : Times(k, npts) >= w[1] /\ Times(k, npts) <= w[2]}

\* line 137
IntegralMask(npts, flux_window) ==
    {k \in 1..npts : Times(k, npts) >= flux_window[1] /\ Times(k, npts) <= flux_window[2]}

\* row 3 of the mantle's Minv applied to (R, Z, 0, 0) (lines 126, 141):
\*   su = Vs * (eta / (2 qb) * R + p * Z)
\* times 4 * PDen * qb_m, with eta = 1/Vs^2 - 2 p^2
SuSample(m, pn, qb_m, r, z) ==
    (PDen * PDen - 2 * pn * pn * m.Vs * m.Vs) * r + 2 * m.Vs * pn * qb_m * z

Square(a) == a * a

\* np.sum(np.abs(su) ** 2) over the samples S of su
RECURSIVE SumSquares(_, _)
SumSquares(su, S) ==
    IF S = {} THEN 0
    ELSE LET k == CHOOSE a \in S : TRUE
         IN Square(su[k]) + SumSquares(su, S \ {k})

\* lines 133-144, one event: Nsu * sum(|su|^2) over the flux window, in units
\* of dt / (16 PDen^3); Nsu = dt rho Vs^2 qb_m
EnergyOfEvent(m, pi, ev, mask) ==
    LET qb_m == RealSqrt(m.Vs, pi)
    IN IF ~IsFinite(qb_m) \/ HasNaN(ev) THEN NaN
       ELSE IF qb_m.v = 0 THEN NaN
       ELSE LET su_windowed == [k \in mask |->
                                   SuSample(m, pi.v, qb_m.v, ev[1][k], ev[2][k])]
            IN Fin((m.rho * m.Vs * SumSquares(su_windowed, mask)) \div qb_m.v)

\* variant: the sum is returned in place of the mean
Mean_Sum(per_event) == Fin(Sum([i \in 1..Len(per_event) |-> per_event[i].v]))

\* line 147: np.mean(Esu_per_event); NaN if an element is NaN
Mean(per_event) ==
    IF \E i \in 1..Len(per_event) : ~IsFinite(per_event[i]) THEN NaN
    ELSE Fin(Sum([i \in 1..Len(per_event) |-> per_event[i].v]) \div Len(per_event))

NoResult == [Esu |-> NoVal, Esu_per_event |-> <<>>, ops |-> <<>>, qb_m |-> <<>>]

\* lines 82-151: the outcome of one call, with the value the argument array
\* has when the call ends
Evaluation(v0, p, mantle, layer_props, flux_window) ==
    IF Len(Shape(v0)) < 3
    THEN [exc |-> "IndexError", arg |-> v0, result |-> NoResult]
    ELSE LET step == NormalizeStep(v0, Normalized(v0))   \* step.v0[i] is NormalizedEvent(v0[i])
             npts == Shape(v0)[3]
             nevts == Shape(v0)[1]
             prop == PropagateLayers(<<>>, layer_props, p)
             mask == IntegralMask(npts, flux_window)
             Esu_per_event == [i \in 1..nevts |->
                                  EnergyOfEvent(mantle, p[i], NormalizedEvent(v0[i]), mask)]
         IN IF Len(p) # nevts
            THEN [exc |-> "ValueError", arg |-> step.arg, result |-> NoResult]
            ELSE IF ~ModeMatricesOk(mantle, p) \/ ~prop.ok
            THEN [exc |-> "AssertionError", arg |-> step.arg, result |-> NoResult]
            ELSE [exc |-> "none", arg |-> step.arg,
                  result |-> [Esu |-> Mean(Esu_per_event),
                              Esu_per_event |-> Esu_per_event,
                              ops |-> prop.ops \o <<Op("Minv", mantle)>>,
                              qb_m |-> [i \in 1..nevts |-> RealSqrt(mantle.Vs, p[i])]]]

\* an array the caller has built without the computer
CallerArrays == {<<<<EvA.R, EvA.Z>>, <<EvB.R, EvB.Z>>>>}

NoCall == [made |-> FALSE]

\* state of the computer and of its caller: the attribute self.v0 (has_v0 is
\* FALSE until it is assigned), the caller's streams, the array cached by the
\* last ingest (history), the number of calls since then (capped), a call
\* on the cached array since the last ingest that is remembered, whether a
\* call with other arguments was made after it, and the last call
InitFlux ==
    /\ MinimiserIdle /\ stepsize = None
    /\ runs = Idle /\ sweep = Idle /\ fold = Idle /\ station = Idle /\ modes = Idle /\ proposal = Idle
    /\ \E d \in StreamDicts :
         flux = [has_v0 |-> FALSE, v0 |-> <<>>, data |-> d, ingested |-> <<>>,
                 ncalls |-> 0, ref |-> NoCall, between |-> FALSE, last |-> NoCall]

\* lines 27-28 and 30-80: flux_comp._streamdict_to_array(data, f_s, ...)
Ingest ==
    /\ flux' = [flux EXCEPT !.has_v0 = TRUE,
                            !.v0 = StreamdictToArray(flux.data),
                            !.data = Processed(flux.data),
                            !.ingested = StreamdictToArray(flux.data),
                            !.ncalls = 0, !.ref = NoCall, !.between = FALSE,
                            !.last = NoCall]
    /\ UNCHANGED <<stepsize, locals, station, modes, proposal, runs, sweep, fold>>

\* one call and its outcome, as the caller sees them
CallRecord(cached, p, layer_props, flux_window, out) ==
    [made |-> TRUE, cached |-> cached, ingested |-> flux.has_v0, p |-> p,
     mantle |-> mantle_props, layer_props |-> layer_props,
     flux_window |-> flux_window, exc |-> out.exc, result |-> out.result]

SameArguments(c, d) ==
    /\ c.p = d.p /\ c.mantle = d.mantle /\ c.layer_props = d.layer_props
    /\ c.flux_window = d.flux_window

\* lines 82-151: flux_comp(flux_comp.v0, f_s, p, mantle_props, layer_props,
\* time_window, flux_window), the caller passing the cached array; keep
\* tells whether the call is the one remembered in ref
CallOnCached ==
    /\ flux.has_v0
    /\ \E p \in PArrays, layer_props \in LayerStacks, flux_window \in FluxWindows,
          keep \in BOOLEAN :
         LET out == Evaluation(flux.v0, p, mantle_props, layer_props, flux_window)
             call == CallRecord(TRUE, p, layer_props, flux_window, out)
         IN flux' = [flux EXCEPT !.v0 = out.arg,
                                 !.ncalls = IF flux.ncalls < 2 THEN flux.ncalls + 1 ELSE 2,
                                 !.ref = IF keep THEN call ELSE flux.ref,
                                 !.between = ~keep /\ (flux.between \/
                                                (flux.ref.made /\ ~SameArguments(flux.ref, call))),
                                 !.last = call]
    /\ UNCHANGED <<stepsize, locals, station, modes, proposal, runs, sweep, fold>>

\* lines 82-151: the same call on an array the caller has built itself
CallOnOwn ==
    /\ \E v0 \in CallerArrays, p \in PArrays :
         LET out == Evaluation(v0, p, mantle_props, <<>>, <<-10, 20>>)
         IN flux' = [flux EXCEPT !.ncalls = IF flux.ncalls < 2 THEN flux.ncalls + 1 ELSE 2,
                                 !.last = CallRecord(FALSE, p, <<>>, <<-10, 20>>, out)]
    /\ UNCHANGED <<stepsize, locals, station, modes, proposal, runs, sweep, fold>>

NextFlux ==
    \/ Ingest
    \/ CallOnCached
    \/ CallOnOwn

SpecFlux == InitFlux /\ [][NextFlux]_vars

\* the last call has returned (no exception)
Returned == flux.last.made /\ flux.last.exc = "none"

\* C12: an evaluation that computes a NaN vertical slowness, for a layer or
\* for the mantle, ends with a failed assertion: no call returns energies
\* computed with a NaN slowness.
C12_NaNSlownessFatal ==
    Returned =>
        /\ ModeMatricesOk(flux.last.mantle, flux.last.p)
        /\ \A l \in 1..Len(flux.last.layer_props) :
               ModeMatricesOk(flux.last.layer_props[l], flux.last.p)
        /\ \A i \in 1..Len(flux.last.p) : IsFinite(flux.last.result.qb_m[i])

\* p < 1/Vp and p < 1/Vs in the mantle and in every layer, for every event
ValidModel(call) ==
    \A i \in 1..Len(call.p) :
        /\ IsFinite(call.p[i])
        /\ \A m \in {call.mantle} \cup {call.layer_props[l] : l \in 1..Len(call.layer_props)} :
               Slowness2(m.Vp, call.p[i].v) > 0 /\ Slowness2(m.Vs, call.p[i].v) > 0

NonNegativeMean(res) ==
    /\ \A i \in 1..Len(res.Esu_per_event) :
           IsFinite(res.Esu_per_event[i]) /\ res.Esu_per_event[i].v >= 0
    /\ IsFinite(res.Esu) /\ res.Esu.v >= 0
    /\ LET n == Len(res.Esu_per_event)
           total == Sum([i \in 1..n |-> res.Esu_per_event[i].v])
       IN n * res.Esu.v <= total /\ total < n * res.Esu.v + n

PeakZero(ev) == \A k \in 1..Len(ev[2]) : ev[2][k] = 0

C15_BufferUnchanged ==
    flux.has_v0 => flux.v0 = flux.ingested

C15_Witness ==
    /\ flux.has_v0 /\ flux.ncalls = 2 /\ Returned /\ flux.last.cached
    /\ Normalized(flux.v0) # flux.v0

\* C16: a call that returns has applied, for each layer in list order, the
\* layer's Minv, its phase factor, then its M, and after the last layer the
\* mantle's Minv, once; nothing else, and for an empty stack the mantle's
\* Minv alone.
C16_LayerOrder ==
    Returned =>
        LET k == Len(flux.last.layer_props)
            ops == flux.last.result.ops
        IN /\ Len(ops) = 3 * k + 1
           /\ \A l \in 1..k :
                  /\ ops[3 * l - 2] = [op |-> "Minv", of |-> flux.last.layer_props[l]]
                  /\ ops[3 * l - 1] = [op |-> "phase", of |-> flux.last.layer_props[l]]
                  /\ ops[3 * l] = [op |-> "M", of |-> flux.last.layer_props[l]]
           /\ ops[3 * k + 1] = [op |-> "Minv", of |-> flux.last.mantle]
           /\ \A n \in 1..(3 * k) : ops[n].of # flux.last.mantle

C16_Witness ==
    /\ Returned
    /\ flux.last.layer_props = <<crust_props, sediment_props>>
    /\ Len(flux.last.result.ops) = 7

\* C18: no array is cached from traces whose lengths differ.
C18_RaggedRejected ==
    flux.has_v0 => ~Ragged(flux.v0)

\* C19: a call returns energies only after an ingest, and computes them on
\* the array the ingest cached.
C19_IngestFirst ==
    Returned => (flux.last.ingested /\ flux.last.cached)

------------------------------------------------------------------------------
(***************************************************************************)
(* The grid sweep of example_wf_continuation_tao.py (lines 161-181): for   *)
(* each row of the (H, Vs) mesh the jobs of the row run in parallel        *)
(* workers, which finish in any order; Parallel returns their values in    *)
(* the order the jobs were submitted.  The grid is MaxRows by MaxCols (51  *)
(* by 51 in the script).  Vs is in units of 1/100 km/s.                    *)
(***************************************************************************)
MaxRows == 2
MaxCols == 4

\* np.linspace(25, 45, 51)[j] and np.linspace(Vp_c/2.1, Vp_c/1.5, 51)[i]
\* with Vp_c = 6.4: H[i, j] depends on j and Vs[i, j] on i (np.meshgrid)
H_mesh(i, j) == 25 + ((j - 1) * (45 - 25)) \div (MaxCols - 1)
Vs_mesh(i, j) == 304 + ((i - 1) * (426 - 304)) \div (MaxRows - 1)

\* the energy the callable returns for the model [LayerProps(Vp_c, _Vs,
\* rho_c, _H)]: a value that tells the models of the grid apart
callable(_H, _Vs) == 100 * _Vs + _H

\* variant: the indices are returned in the other order
job_caller_Swapped(i, j, _H, _Vs) == <<j, i, callable(_H, _Vs)>>

\* lines 161-164
job_caller(i, j, _H, _Vs) == <<i, j, callable(_H, _Vs)>>

\* the values of the finished jobs in the order of submission (the order
\* of j)
RECURSIVE InSubmissionOrder(_, _)
InSubmissionOrder(done, j) ==
    IF j > MaxCols THEN <<>>
    ELSE (IF j \in DOMAIN done THEN <<done[j]>> ELSE <<>>) \o InSubmissionOrder(done, j + 1)

InitSweep ==
    /\ MinimiserIdle /\ stepsize = None
    /\ runs = Idle /\ flux = Idle /\ fold = Idle /\ station = Idle /\ modes = Idle /\ proposal = Idle
    /\ sweep = [pc |-> "rows", i |-> 1, pending |-> {}, returned |-> <<>>,
                order |-> <<>>, results |-> <<>>, k |-> 1,
                Esu |-> [i \in 1..MaxRows |-> [j \in 1..MaxCols |-> 0]],
                fills |-> [i \in 1..MaxRows |-> [j \in 1..MaxCols |-> 0]],
                overtaken |-> FALSE]

\* lines 171-177: the jobs of row i are handed to the workers
Dispatch ==
    /\ sweep.pc = "rows" /\ sweep.i <= MaxRows
    /\ sweep' = [sweep EXCEPT !.pc = "parallel", !.pending = 1..MaxCols,
                              !.returned = <<>>, !.order = <<>>]
    /\ UNCHANGED <<stepsize, locals, station, modes, proposal, runs, flux, fold>>

\* a worker finishes job j of the row: job_caller returns; returned is
\* indexed by j, order is the order of completion (history)
WorkerFinish ==
    /\ sweep.pc = "parallel"
    /\ \E j \in sweep.pending :
         sweep' = [sweep EXCEPT
            !.pending = sweep.pending \ {j},
            !.returned = [n \in DOMAIN sweep.returned \cup {j} |->
                             IF n = j
                             THEN job_caller(sweep.i, j, H_mesh(sweep.i, j), Vs_mesh(sweep.i, j))
                             ELSE sweep.returned[n]],
            !.order = Append(sweep.order, j),
            !.overtaken = sweep.overtaken \/ (\E n \in sweep.pending : n < j)]
    /\ UNCHANGED <<stepsize, locals, station, modes, proposal, runs, flux, fold>>

\* line 172: results.extend(Parallel(n_jobs=-1)(...)), then the next row
Collect ==
    /\ sweep.pc = "parallel" /\ sweep.pending = {}
    /\ sweep' = [sweep EXCEPT
            !.results = sweep.results \o InSubmissionOrder(sweep.returned, 1),
            !.returned = <<>>, !.order = <<>>,
            !.i = sweep.i + 1,
            !.pc = IF sweep.i = MaxRows THEN "aggregate" ELSE "rows"]
    /\ UNCHANGED <<stepsize, locals, station, modes, proposal, runs, flux, fold>>

\* lines 179-181, one iteration: Esu[i, j] = energy
Aggregate ==
    /\ sweep.pc = "aggregate" /\ sweep.k <= Len(sweep.results)
    /\ LET r == sweep.results[sweep.k]
       IN sweep' = [sweep EXCEPT !.Esu[r[1]][r[2]] = r[3],
                                 !.fills[r[1]][r[2]] = sweep.fills[r[1]][r[2]] + 1,
                                 !.k = sweep.k + 1]
    /\ UNCHANGED <<stepsize, locals, station, modes, proposal, runs, flux, fold>>

\* line 183: plot_Esu_space(H, Vs, Esu, ...)
PlotEsu ==
    /\ sweep.pc = "aggregate" /\ sweep.k > Len(sweep.results)
    /\ sweep' = [sweep EXCEPT !.pc = "done"]
    /\ UNCHANGED <<stepsize, locals, station, modes, proposal, runs, flux, fold>>

NextSweep ==
    \/ Dispatch
    \/ WorkerFinish
    \/ Collect
    \/ Aggregate
    \/ PlotEsu

SpecSweep == InitSweep /\ [][NextSweep]_vars

------------------------------------------------------------------------------
(***************************************************************************)
(* The back-azimuth residual of one event in                               *)
(* analyze_station_orientations.py (lines 89-94).  Angles are whole        *)
(* degrees; raw is the angle the correction starts from.                   *)
(***************************************************************************)
MaxAngle == 400

\* variant: angles up to 180 are left as they are
AboveRange_Beyond180(a) == a > 180

\* line 92
AboveRange(a) == a > 90

\* line 90
BelowRange(a) == a < -90

InitFold ==
    /\ MinimiserIdle /\ stepsize = None
    /\ runs = Idle /\ flux = Idle /\ sweep = Idle /\ station = Idle /\ modes = Idle /\ proposal = Idle
    /\ \E raw \in (-MaxAngle)..MaxAngle :
         fold = [pc |-> "up", raw |-> raw, sk_baz_error |-> raw, iters |-> 0,
                 resids |-> <<>>]

\* lines 90-91, one iteration
AddHalfTurn ==
    /\ fold.pc = "up" /\ BelowRange(fold.sk_baz_error)
    /\ fold' = [fold EXCEPT !.sk_baz_error = fold.sk_baz_error + 180,
                            !.iters = fold.iters + 1]
    /\ UNCHANGED <<stepsize, locals, station, modes, proposal, runs, flux, sweep>>

\* line 90, the loop test fails
EndAdd ==
    /\ fold.pc = "up" /\ ~BelowRange(fold.sk_baz_error)
    /\ fold' = [fold EXCEPT !.pc = "down"]
    /\ UNCHANGED <<stepsize, locals, station, modes, proposal, runs, flux, sweep>>

\* lines 92-93, one iteration
SubtractHalfTurn ==
    /\ fold.pc = "down" /\ AboveRange(fold.sk_baz_error)
    /\ fold' = [fold EXCEPT !.sk_baz_error = fold.sk_baz_error - 180,
                            !.iters = fold.iters + 1]
    /\ UNCHANGED <<stepsize, locals, station, modes, proposal, runs, flux, sweep>>

\* lines 92 and 94: the loop test fails, resids.append(sk_baz_error)
AppendResid ==
    /\ fold.pc = "down" /\ ~AboveRange(fold.sk_baz_error)
    /\ fold' = [fold EXCEPT !.pc = "done",
                            !.resids = Append(fold.resids, fold.sk_baz_error)]
    /\ UNCHANGED <<stepsize, locals, station, modes, proposal, runs, flux, sweep>>

NextFold ==
    \/ AddHalfTurn
    \/ EndAdd
    \/ SubtractHalfTurn
    \/ AppendResid

SpecFold == InitFold /\ [][NextFold]_vars

\* the correction has run at most as many iterations as half turns fit in
\* the distance of raw from the range, and it can go on until it is done
FoldTerminates ==
    /\ 180 * fold.iters <= Abs(fold.raw) + 90
    /\ fold.pc # "done" => ENABLED NextFold

FoldedBy180 ==
    fold.pc = "done" =>
        /\ fold.resids = <<fold.sk_baz_error>>
        /\ (fold.sk_baz_error - fold.raw) % 180 = 0

\* C20 as stated: the loop terminates and the residual is in (-90, 90] and
\* differs from the raw angle by a multiple of 180.
C20_Original ==
    /\ FoldTerminates /\ FoldedBy180
    /\ fold.pc = "done" => (fold.sk_baz_error > -90 /\ fold.sk_baz_error <= 90)

\* C20: the loop terminates and the residual is in the closed range
\* [-90, 90] and differs from the raw angle by a multiple of 180; 200 gives
\* 20, -200 gives -20, and -90 stays -90.
C20_FoldClosedRange ==
    /\ FoldTerminates /\ FoldedBy180
    /\ fold.pc = "done" =>
          /\ fold.sk_baz_error >= -90 /\ fold.sk_baz_error <= 90
          /\ fold.raw = 200 => fold.sk_baz_error = 20
          /\ fold.raw = -200 => fold.sk_baz_error = -20
          /\ fold.raw = -90 => fold.sk_baz_error = -90

C20_Witness ==
    fold.pc = "done" /\ fold.raw = 200 /\ fold.sk_baz_error = 20 /\ fold.iters = 1

------------------------------------------------------------------------------
(***************************************************************************)
(* The per-station loop of analyze_station_orientations.py (lines 62-108). *)
(* An event is what the loop body reads of its stream: the magnitude (in   *)
(* tenths), the lengths of the trimmed R and T traces, the share of the    *)
(* variance the first principal component explains (in percent) and the    *)
(* angle of that component (whole degrees).  Magnitude and share are       *)
(* floating-point values and may be NaN (the share is 0/0 for a window     *)
(* without variance).                                                      *)
(***************************************************************************)
MaxEvents == 6

\* line 62: the stations of the dataset, in the order by_station yields them
StationCodes == <<"AU.ARMA", "AU.QIS">>

\* An event that passes the three filters, with a raw angle below -90, and
\* the events that differ from it in one reading: the angle, a magnitude
\* below 5.5 or NaN, windows of different lengths, a variance share below
\* 80 percent, above it or NaN.
GoodEvent == [event_magnitude |-> Fin(55), lens |-> <<41, 41>>,
              explained_variance_ratio |-> Fin(80), angle |-> -100]
Events ==
    {GoodEvent,
     [GoodEvent EXCEPT !.angle = 20],
     [GoodEvent EXCEPT !.event_magnitude = Fin(54)],
     [GoodEvent EXCEPT !.event_magnitude = NaN],
     [GoodEvent EXCEPT !.lens = <<41, 40>>],
     [GoodEvent EXCEPT !.explained_variance_ratio = Fin(79)],
     [GoodEvent EXCEPT !.explained_variance_ratio = Fin(95)],
     [GoodEvent EXCEPT !.explained_variance_ratio = NaN]}

\* lines 90-93: both correction loops run to their end
RECURSIVE FoldAngle(_)
FoldAngle(a) ==
    IF BelowRange(a) THEN FoldAngle(a + 180)
    ELSE IF AboveRange(a) THEN FoldAngle(a - 180)
    ELSE a

\* line 71
LowMagnitude(ev) == FLt(ev.event_magnitude, Fin(55))

\* line 75
LengthMismatch(ev) == ev.lens[1] # ev.lens[2]

\* line 87
Ambiguous(ev) == FLt(ev.explained_variance_ratio, Fin(80))

\* lines 64-94, one event: the residuals after the loop body
ResidsAfter(resids, ev) ==
    IF LowMagnitude(ev) \/ LengthMismatch(ev) \/ Ambiguous(ev) THEN resids
    ELSE Append(resids, FoldAngle(ev.angle))

\* floor of the square root of n, for 0 <= n <= 180^2
RootOf(n) == CHOOSE r \in 0..180 : r * r <= n /\ (r + 1) * (r + 1) > n

\* lines 98-101; every value is NaN for an empty array (a warning, no
\* exception)
MeanOfResids(resids) ==
    IF resids = <<>> THEN NaN ELSE Fin(Sum(resids) \div Len(resids))

VarianceOfResids(resids) ==
    LET N == Len(resids)
        squares == [i \in 1..N |-> resids[i] * resids[i]]
    IN (N * Sum(squares) - Sum(resids) * Sum(resids)) \div (N * N)

StddevOfResids(resids) ==
    IF resids = <<>> THEN NaN ELSE Fin(RootOf(VarianceOfResids(resids)))

StderrOfResids(resids) ==
    IF resids = <<>> THEN NaN
    ELSE Fin(RootOf(VarianceOfResids(resids) \div Len(resids)))

\* line 102
EnoughData(N) == N >= 5

\* lines 102-105: what is logged for the station
Report(sta, resids) ==
    IF EnoughData(Len(resids))
    THEN [sta |-> sta, numeric |-> TRUE, N |-> Len(resids),
          mean |-> MeanOfResids(resids), stderr |-> StderrOfResids(resids),
          stddev |-> StddevOfResids(resids)]
    ELSE [sta |-> sta, numeric |-> FALSE, N |-> Len(resids),
          mean |-> NoVal, stderr |-> NoVal, stddev |-> NoVal]

NoEvent == [made |-> FALSE]

\* An event qualifies when its magnitude is at least 5.5, its two windows
\* have the same length and the first component explains at least 80
\* percent of the variance.
Qualifies(ev) ==
    /\ FLe(Fin(55), ev.event_magnitude)
    /\ ev.lens[1] = ev.lens[2]
    /\ FLe(Fin(80), ev.explained_variance_ratio)

\* sta is the index of the station being analysed, seen the number of its
\* events read so far, resids its residuals, qualifying the number of its
\* events read so far that qualify (history), last the last event read with
\* the residuals before and after it (history), log the lines logged for
\* the stations and qualified the number of qualifying events of each
\* logged station (history)
InitStation ==
    /\ MinimiserIdle /\ stepsize = None
    /\ runs = Idle /\ flux = Idle /\ sweep = Idle /\ fold = Idle
    /\ modes = Idle /\ proposal = Idle
    /\ station = [pc |-> "events", sta |-> 1, seen |-> 0, resids |-> <<>>,
                  qualifying |-> 0, last |-> NoEvent, log |-> <<>>,
                  qualified |-> <<>>]

\* lines 64-94: the loop body for the next event of the station
AnalyseEvent ==
    /\ station.pc = "events" /\ station.seen < MaxEvents
    /\ \E ev \in Events :
         station' = [station EXCEPT
            !.seen = station.seen + 1,
            !.resids = ResidsAfter(station.resids, ev),
            !.qualifying = IF Qualifies(ev) THEN station.qualifying + 1
                           ELSE station.qualifying,
            !.last = [made |-> TRUE, ev |-> ev,
                      before |-> station.resids,
                      after |-> ResidsAfter(station.resids, ev)]]
    /\ UNCHANGED <<stepsize, locals, modes, proposal, runs, flux, sweep, fold>>

\* lines 97-107: the events of the station are exhausted; its statistics
\* are logged and the loop goes to the next station
StationStatistics ==
    /\ station.pc = "events"
    /\ station' = [station EXCEPT
            !.log = Append(station.log,
                            Report(StationCodes[station.sta], station.resids)),
            !.qualified = Append(station.qualified, station.qualifying),
            !.sta = station.sta + 1, !.seen = 0, !.resids = <<>>,
            !.qualifying = 0,
            !.last = NoEvent,
            !.pc = IF station.sta = Len(StationCodes) THEN "written" ELSE "events"]
    /\ UNCHANGED <<stepsize, locals, modes, proposal, runs, flux, sweep, fold>>

NextStation ==
    \/ AnalyseEvent
    \/ StationStatistics

SpecStation == InitStation /\ [][NextStation]_vars

\* C21: a station is reported with a numeric result (mean, standard error,
\* standard deviation) exactly when at least 5 of its events qualify; with
\* 0 to 4 qualifying events it is flagged as insufficient data.
C21_NumericIffFiveQualifying ==
    \A i \in 1..Len(station.log) :
        station.log[i].numeric <=> station.qualified[i] >= 5

\* C22: an event adds a residual to the residuals of its station exactly
\* when it qualifies, it then adds exactly one, and every other event leaves
\* the residuals as they were.
C22_ContributesIffQualifies ==
    station.last.made =>
        LET ev == station.last.ev
            before == station.last.before
            after == station.last.after
        IN /\ Qualifies(ev) => Len(after) = Len(before) + 1
           /\ ~Qualifies(ev) => after = before

------------------------------------------------------------------------------
(***************************************************************************)
(* One call of _mode_matrices (wavefield_continuation_tao.py, lines        *)
(* 152-208), in exact arithmetic.  A rational is a pair <<n, d>> in lowest *)
(* terms with d > 0.  qa and qb are square roots of rationals A and B, so  *)
(* every number of the function is a + b*qa + c*qb + d*qa*qb with rational *)
(* a, b, c, d: a 4-tuple, multiplied with qa*qa = A and qb*qb = B.         *)
(***************************************************************************)
RECURSIVE GCD(_, _)
GCD(a, b) == IF b = 0 THEN a ELSE GCD(b, a % b)

Rat(n, d) ==
    LET g == GCD(Abs(n), Abs(d))
        sgn == IF d < 0 THEN -1 ELSE 1
    IN <<sgn * (n \div g), sgn * (d \div g)>>

\* sum over the least common denominator, product after cancelling across
RAdd(r, q) ==
    LET g == GCD(r[2], q[2])
    IN Rat(r[1] * (q[2] \div g) + q[1] * (r[2] \div g), (r[2] \div g) * q[2])
RMul(r, q) ==
    LET g == GCD(Abs(r[1]), q[2])
        h == GCD(Abs(q[1]), r[2])
    IN Rat((r[1] \div g) * (q[1] \div h), (r[2] \div h) * (q[2] \div g))
RDiv(r, q) == RMul(r, Rat(q[2], q[1]))
RNeg(r) == <<-r[1], r[2]>>
RZero == <<0, 1>>
ROne == <<1, 1>>

\* the rational r as a number of the function
Num(r) == <<r, RZero, RZero, RZero>>

NAdd(z, w) == [k \in 1..4 |-> RAdd(z[k], w[k])]
NNeg(z) == [k \in 1..4 |-> RNeg(z[k])]
NScale(r, z) == [k \in 1..4 |-> RMul(r, z[k])]

\* product of two numbers, A and B being the squares of qa and qb
NMul(z, w, A, B) ==
    LET m(i, j) == RMul(z[i], w[j])
    IN << RAdd(RAdd(m(1, 1), RMul(A, m(2, 2))),
               RAdd(RMul(B, m(3, 3)), RMul(RMul(A, B), m(4, 4)))),
          RAdd(RAdd(m(1, 2), m(2, 1)), RMul(B, RAdd(m(3, 4), m(4, 3)))),
          RAdd(RAdd(m(1, 3), m(3, 1)), RMul(A, RAdd(m(2, 4), m(4, 2)))),
          RAdd(RAdd(m(1, 4), m(4, 1)), RAdd(m(2, 3), m(3, 2))) >>

\* z / qa = z * qa / A and z / qb = z * qb / B, for A and B not zero
DivQa(z, A, B) ==
    NScale(RDiv(ROne, A), NMul(z, <<RZero, ROne, RZero, RZero>>, A, B))
DivQb(z, A, B) ==
    NScale(RDiv(ROne, B), NMul(z, <<RZero, RZero, ROne, RZero>>, A, B))

RECURSIVE NSum(_)
NSum(zs) == IF zs = <<>> THEN Num(RZero) ELSE NAdd(Head(zs), NSum(Tail(zs)))

\* np.matmul of two 4 x 4 matrices
MatMul(X, Y, A, B) ==
    [i \in 1..4 |-> [j \in 1..4 |->
        NSum([k \in 1..4 |-> NMul(X[i][k], Y[k][j], A, B)])]]

\* np.diag of four rationals
Diag(v) ==
    [i \in 1..4 |-> [j \in 1..4 |-> IF i = j THEN Num(v[i]) ELSE Num(RZero)]]

Identity == Diag(<<ROne, ROne, ROne, ROne>>)

\* lines 165, 167: the argument of the square root, 1 / V**2 - p * p
SlownessSquared(V, p) == RAdd(Rat(1, V * V), RNeg(RMul(p, p)))

\* variant: p * p is not doubled
eta_Single(Vs, p) == RAdd(Rat(1, Vs * Vs), RNeg(RMul(p, p)))

\* line 169
eta(Vs, p) == RAdd(Rat(1, Vs * Vs), RNeg(RMul(Rat(2, 1), RMul(p, p))))

\* lines 165-197 for one ray parameter p: M, Minv and the diagonal of Q
ModeMatricesAt(Vp, Vs, rho, p) ==
    LET A == SlownessSquared(Vp, p)
        B == SlownessSquared(Vs, p)
        qa == <<RZero, ROne, RZero, RZero>>
        qb == <<RZero, RZero, ROne, RZero>>
        mu == Rat(rho * Vs * Vs, 1)
        trp == NScale(RMul(Rat(2, 1), RMul(mu, p)), qa)
        trs == NScale(RMul(Rat(2, 1), RMul(mu, p)), qb)
        mu_eta == Num(RMul(mu, eta(Vs, p)))
        pp == Num(p)
        M0 == << <<pp, pp, qb, qb>>,
                 <<qa, NNeg(qa), NNeg(pp), pp>>,
                 <<NNeg(trp), trp, NNeg(mu_eta), mu_eta>>,
                 <<NNeg(mu_eta), NNeg(mu_eta), trs, trs>> >>
        Vfactors == Diag(<<Rat(Vp, 1), Rat(Vp, 1), Rat(Vs, 1), Rat(Vs, 1)>>)
        mu_p == Num(RMul(mu, p))
        half == Rat(1, 2)
        minus_half == Num(Rat(-1, 2))
        Minv0 ==
           << <<mu_p, DivQa(NScale(half, mu_eta), A, B),
                DivQa(NScale(half, NNeg(pp)), A, B), minus_half>>,
              <<mu_p, DivQa(NScale(half, NNeg(mu_eta)), A, B),
                DivQa(NScale(half, pp), A, B), minus_half>>,
              <<DivQb(NScale(half, mu_eta), A, B), NNeg(mu_p),
                minus_half, DivQb(NScale(half, pp), A, B)>>,
              <<DivQb(NScale(half, mu_eta), A, B), mu_p,
                NNeg(minus_half), DivQb(NScale(half, pp), A, B)>> >>
        Minv_rho == [i \in 1..4 |-> [j \in 1..4 |->
                        NScale(Rat(1, rho), Minv0[i][j])]]
        Vfactors_inv ==
            Diag(<<Rat(1, Vp), Rat(1, Vp), Rat(1, Vs), Rat(1, Vs)>>)
    IN [M |-> MatMul(M0, Vfactors, A, B),
        Minv |-> MatMul(Vfactors_inv, Minv_rho, A, B),
        Q |-> <<NNeg(qa), qa, NNeg(qb), qb>>,
        A |-> A, B |-> B]

\* lines 152-206: the matrices are stacked along a leading axis, one per
\* ray parameter
_mode_matrices(Vp, Vs, rho, p) ==
    [i \in 1..Len(p) |-> ModeMatricesAt(Vp, Vs, rho, p[i])]

\* The arguments of a call.  No ray parameter equals 1/Vp or 1/Vs (qa or qb
\* zero, a division by zero in Minv); 3/20 is above 1/Vp for Vp = 8, where
\* qa is imaginary.
ModeVps == {5, 8}
ModeVss == {3, 4}
ModeRhos == {2, 3}
ModePs == {Rat(pn, PDen) : pn \in 0..3}
ModePArrays == {<<p1>> : p1 \in ModePs} \cup (ModePs \X ModePs)

\* p < 1/Vp and p < 1/Vs for every ray parameter
ValidModeArgs(a) ==
    \A i \in 1..Len(a.p) :
        /\ a.p[i][1] * a.Vp < a.p[i][2]
        /\ a.p[i][1] * a.Vs < a.p[i][2]

InitModes ==
    /\ MinimiserIdle /\ stepsize = None
    /\ runs = Idle /\ flux = Idle /\ sweep = Idle /\ fold = Idle
    /\ station = Idle /\ proposal = Idle
    /\ \E Vp \in ModeVps, Vs \in ModeVss, rho \in ModeRhos,
          p \in ModePArrays :
         modes = [pc |-> "called",
                  args |-> [Vp |-> Vp, Vs |-> Vs, rho |-> rho, p |-> p],
                  ret |-> <<>>]

\* the call returns (M, Minv, Q)
ModeMatrices ==
    /\ modes.pc = "called"
    /\ modes' = [modes EXCEPT
            !.pc = "returned",
            !.ret = _mode_matrices(modes.args.Vp, modes.args.Vs,
                                   modes.args.rho, modes.args.p)]
    /\ UNCHANGED <<stepsize, locals, station, proposal, runs, flux, sweep,
                   fold>>

NextModes ==
    \/ ModeMatrices

SpecModes == InitModes /\ [][NextModes]_vars

\* C23: for valid (Vp, Vs, rho, p), with p < 1/Vp and p < 1/Vs, the matrices
\* returned by _mode_matrices satisfy M * Minv = Identity for every ray
\* parameter.
C23_MinvIsInverse ==
    (modes.pc = "returned" /\ ValidModeArgs(modes.args)) =>
        \A i \in 1..Len(modes.ret) :
            MatMul(modes.ret[i].M, modes.ret[i].Minv,
                   modes.ret[i].A, modes.ret[i].B) = Identity

C23_Witness ==
    /\ modes.pc = "returned" /\ ValidModeArgs(modes.args)
    /\ Len(modes.ret) = 2
    /\ modes.args.p[1] # modes.args.p[2]
    /\ modes.args.p[1] # RZero /\ modes.args.p[2] # RZero
    /\ MatMul(modes.ret[2].M, modes.ret[2].Minv,
              modes.ret[2].A, modes.ret[2].B) = Identity

------------------------------------------------------------------------------
(***************************************************************************)
(* One call of _propose_step (solvers.py, lines 56-68) on its own: the     *)
(* current point, the bounds and the step sizes are the inputs.  A         *)
(* dimension whose bounds coincide has a step size of 0.15 * (ub - lb) = 0.*)
(***************************************************************************)
FixedLb == <<0, 50>>
FixedUb == <<100, 50>>
ProposeBounds == {[lb |-> TheLb, ub |-> TheUb], [lb |-> FixedLb, ub |-> FixedUb]}
ProposeCoords == {0, 10, 50, 90, 100}

InitPropose ==
    /\ MinimiserIdle /\ stepsize = None
    /\ runs = Idle /\ flux = Idle /\ sweep = Idle /\ fold = Idle
    /\ station = Idle /\ modes = Idle
    /\ \E b \in ProposeBounds, p \in ProposeCoords \X ProposeCoords :
         /\ X0InBounds(p, b.lb, b.ub)
         /\ proposal = [pc |-> "called", x |-> p, before |-> p,
                        lb |-> b.lb, ub |-> b.ub,
                        stepsize |-> Sigma0(b.lb, b.ub),
                        dim |-> 0, retries |-> 0, result |-> None]

\* lines 56-68: the loop draws until a value is within the bounds, then the
\* copy is made and returned; x is the caller's array
Propose ==
    /\ proposal.pc = "called"
    /\ \E r \in ProposeStep(proposal.x, proposal.lb, proposal.ub,
                            proposal.stepsize) :
         proposal' = [proposal EXCEPT
                !.pc = "returned", !.dim = r.dim, !.retries = r.retries,
                !.x = r.x, !.result = r.result]
    /\ UNCHANGED <<stepsize, locals, station, modes, runs, flux, sweep, fold>>

NextPropose ==
    \/ Propose

SpecPropose == InitPropose /\ [][NextPropose]_vars

DiffersIn(p, q) == {i \in Dims : p[i] # q[i]}

\* C24 as stated: the proposal differs from the current point in exactly
\* one dimension, the one finally chosen, and the current point is not
\* modified.
C24_Original ==
    proposal.pc = "returned" =>
        /\ DiffersIn(proposal.result, proposal.before) = {proposal.dim}
        /\ proposal.x = proposal.before

\* C24: the proposal differs from the current point in at most one
\* dimension, the one finally chosen, and does differ there when the step
\* size of that dimension is not zero; it equals the current point in every
\* other dimension, also after retries, and the current point is not
\* modified.
C24_AtMostOneDimension ==
    proposal.pc = "returned" =>
        /\ DiffersIn(proposal.result, proposal.before) \subseteq {proposal.dim}
        /\ proposal.stepsize[proposal.dim] # 0 =>
              DiffersIn(proposal.result, proposal.before) = {proposal.dim}
        /\ proposal.x = proposal.before

C24_Witness ==
    /\ proposal.pc = "returned" /\ proposal.retries > 0
    /\ DiffersIn(proposal.result, proposal.before) = {proposal.dim}
    /\ proposal.x = proposal.before

====
